---- MODULE Spec2Model ----
(***************************************************************************)
(* Model of the instrument crate (src/src/recording.rs): thread-confined   *)
(* region recording, the GLOBAL hand-off queue guarded by a Mutex and a    *)
(* Condvar, and the reconstruction RawThreadProfile::profile.              *)
(*                                                                         *)
(* Spec is the program with two recording and two receiving threads, any   *)
(* RegionRecord being dropped on any recording thread or leaked.           *)
(* ProfileSpec is one thread that records at every call site, receives and *)
(* reconstructs.  ExportSpec is one thread that also exports the forest to *)
(* a sink.  FairSpec adds weak fairness for the steps inside drop, recv    *)
(* and try_recv; LockFairSpec adds a fair mutex.                           *)
(*                                                                         *)
(* Rust's Option<T> is modelled as a sequence of length at most one:       *)
(* None is <<>> and Some(x) is <<x>>.  Vec and VecDeque are sequences;     *)
(* Rust indices are 0-based, so element i of a Vec v is v[i + 1].          *)
(***************************************************************************)
EXTENDS Integers, Sequences, FiniteSets, TLC

\* Bound on the number of RegionRecord::new calls in one behaviour of Spec.
MaxOpens == 3

\* Bound on the number of RegionRecord::new calls in one behaviour of
\* ProfileSpec.
MaxProfileOpens == 4

\* Bound on the number of RegionRecord::new calls in one behaviour of
\* FairSpec.
MaxFairOpens == 2

\* The threads of the process.  thread_id::get() of a thread is the thread
\* itself.  In Spec and FairSpec threads 1 and 2 record regions and threads
\* 3 and 4 receive; in ProfileSpec thread 1 does both, as the tests do.
Recorders == {1, 2}
Consumers == {3, 4}
Threads == Recorders \cup Consumers
Main == 1

\* The region identities (name, file, line) the call sites pass to
\* RegionRecord::new: two call sites sharing a name, and a third one.
Regions ==
  { [name |-> "main", file |-> "a.rs", line |-> 1],
    [name |-> "main", file |-> "a.rs", line |-> 2],
    [name |-> "work", file |-> "a.rs", line |-> 1] }

\* The call sites thread t runs through in Spec and FairSpec: every
\* recording thread runs its own function, as in the test
\* multi_thread_single_regions.
CallSites(t) ==
  IF t = 1 THEN {r \in Regions : r.name = "main" /\ r.line = 1}
           ELSE {r \in Regions : r.name = "work"}

None == <<>>
Some(x) == <<x>>
IsSome(o) == o # <<>>
Unwrap(o) == o[1]

VARIABLES
  thread_local,    \* THREAD_LOCAL of every thread: raw_thread_profile, stack
  profiles,        \* GLOBAL.profiles, the VecDeque behind the Mutex
  mutex,           \* holder of the GLOBAL Mutex: None or Some(thread)
  pc,              \* position of every thread inside drop / recv / try_recv
  clock,           \* per thread, the number of timestamps it has read
  guards,          \* the RegionRecord values that exist (not yet dropped)
  opened,          \* number of RegionRecord::new calls so far
  ret,             \* per thread, the last value recv / try_recv returned
  delivered,       \* history: the items popped from the queue, in order
  thread_profile,  \* per thread, the last ThreadProfile it reconstructed
  gen_log,         \* history: per thread, the RegionRecord::new calls since
                   \* its stack was last empty
  completed,       \* history: per thread, how often its stack became empty
  pushed,          \* history: the items pushed to the queue, in order
  exported,        \* per thread, the sink and the io::Result of its last
                   \* to_chrome_tracing call
  leaked           \* history: the RegionRecord values that were leaked

vars == <<thread_local, profiles, mutex, pc, clock, guards, opened, ret,
          delivered, thread_profile, gen_log, completed, pushed, exported,
          leaked>>

----------------------------------------------------------------------------
\* Thread-local recording state

\* A profile that always carries the id of the first thread.
RawThreadProfile_new_FixedId(thread_id) ==
  [thread_id |-> 1, region_backends |-> <<>>]

RawThreadProfile_new(thread_id) ==
  [thread_id |-> thread_id, region_backends |-> <<>>]

ThreadLocal_new(t) ==
  [raw_thread_profile |-> Some(RawThreadProfile_new(t)), stack |-> <<>>]

\* RecordingTimestamp::now() as thread t observes it: every read returns a
\* value larger than the previous read of the same thread.  Timestamps of
\* different threads are never compared by the code, so the clock is kept
\* per thread.  A start time therefore names an activation of its thread.
now(t) == clock[t] + 1

\* An open that reads the parent after it pushed the new index: every
\* activation is its own parent.
RegionRecord_new_ParentAfterPush(tl, t, region, time) ==
  LET has == IsSome(tl.raw_thread_profile)
      current_index ==
        IF has THEN Len(Unwrap(tl.raw_thread_profile).region_backends) ELSE 0
      prof == IF has THEN Unwrap(tl.raw_thread_profile)
                     ELSE RawThreadProfile_new(t)
      parent == Some(current_index)
      backend == [name |-> region.name, file |-> region.file,
                  line |-> region.line, parent |-> parent,
                  start |-> time, end |-> None]
  IN [raw_thread_profile |->
        Some([prof EXCEPT !.region_backends = Append(@, backend)]),
      stack |-> Append(tl.stack, current_index)]

\* An open that takes the parent from the bottom of the stack.
RegionRecord_new_ParentFront(tl, t, region, time) ==
  LET has == IsSome(tl.raw_thread_profile)
      current_index ==
        IF has THEN Len(Unwrap(tl.raw_thread_profile).region_backends) ELSE 0
      prof == IF has THEN Unwrap(tl.raw_thread_profile)
                     ELSE RawThreadProfile_new(t)
      parent == IF Len(tl.stack) > 0 THEN Some(tl.stack[1])
                                     ELSE None
      backend == [name |-> region.name, file |-> region.file,
                  line |-> region.line, parent |-> parent,
                  start |-> time, end |-> None]
  IN [raw_thread_profile |->
        Some([prof EXCEPT !.region_backends = Append(@, backend)]),
      stack |-> Append(tl.stack, current_index)]

\* An open that never links an activation to a parent.
RegionRecord_new_NoParent(tl, t, region, time) ==
  LET has == IsSome(tl.raw_thread_profile)
      current_index ==
        IF has THEN Len(Unwrap(tl.raw_thread_profile).region_backends) ELSE 0
      prof == IF has THEN Unwrap(tl.raw_thread_profile)
                     ELSE RawThreadProfile_new(t)
      parent == None
      backend == [name |-> region.name, file |-> region.file,
                  line |-> region.line, parent |-> parent,
                  start |-> time, end |-> None]
  IN [raw_thread_profile |->
        Some([prof EXCEPT !.region_backends = Append(@, backend)]),
      stack |-> Append(tl.stack, current_index)]

\* The value of THREAD_LOCAL of thread t after RegionRecord::new(region).
RegionRecord_new(tl, t, region, time) ==
  LET has == IsSome(tl.raw_thread_profile)
      current_index ==
        IF has THEN Len(Unwrap(tl.raw_thread_profile).region_backends) ELSE 0
      prof == IF has THEN Unwrap(tl.raw_thread_profile)
                     ELSE RawThreadProfile_new(t)
      parent == IF Len(tl.stack) > 0 THEN Some(tl.stack[Len(tl.stack)])
                                     ELSE None
      backend == [name |-> region.name, file |-> region.file,
                  line |-> region.line, parent |-> parent,
                  start |-> time, end |-> None]
  IN [raw_thread_profile |->
        Some([prof EXCEPT !.region_backends = Append(@, backend)]),
      stack |-> Append(tl.stack, current_index)]

\* drop panics before it changes anything when the stack is empty
\* (debug_assert! / expect) or when there is no profile (panic!).
DropPanics(tl) ==
  \/ Len(tl.stack) = 0
  \/ ~IsSome(tl.raw_thread_profile)

\* A drop that writes the end time to the activation at the bottom of the
\* stack and pops the top.
DropLocal_EndOnFront(tl, time) ==
  LET index == tl.stack[1]
      prof == Unwrap(tl.raw_thread_profile)
  IN [raw_thread_profile |->
        Some([prof EXCEPT !.region_backends[index + 1].end = Some(time)]),
      stack |-> SubSeq(tl.stack, 1, Len(tl.stack) - 1)]

\* The value of THREAD_LOCAL after the thread-local part of drop: the end
\* time goes to the activation on top of the stack, which is popped.
DropLocal(tl, time) ==
  LET index == tl.stack[Len(tl.stack)]
      prof == Unwrap(tl.raw_thread_profile)
  IN [raw_thread_profile |->
        Some([prof EXCEPT !.region_backends[index + 1].end = Some(time)]),
      stack |-> SubSeq(tl.stack, 1, Len(tl.stack) - 1)]

\* The activation that drop is about to close: the one whose index is on
\* top of the stack (line 107).
TopActivation(tl) ==
  Unwrap(tl.raw_thread_profile).region_backends[tl.stack[Len(tl.stack)] + 1]

\* A hand-off test that is off by one.
StackIsEmpty_OffByOne(tl) == Len(tl.stack) <= 1

\* drop, line 116: thread_local.stack.len() == 0
StackIsEmpty(tl) == Len(tl.stack) = 0

\* The RegionRecord that RegionRecord::new returns.  The value itself is a
\* unit struct; the record names the activation it was created for.
Guard(t, time) == [thread |-> t, start |-> time]

\* The drop of RegionRecord g on thread t is mismatched: the thread has an
\* open activation, and the one on top of its stack is not the one g was
\* created for.
Mismatched(t, g) ==
  /\ ~DropPanics(thread_local[t])
  /\ g # Guard(t, TopActivation(thread_local[t]).start)

----------------------------------------------------------------------------
\* The hand-off queue GLOBAL.profiles

\* A push at the wrong end of the queue.
push_back_Front(queue, item) == <<item>> \o queue

\* VecDeque::push_back
push_back(queue, item) == Append(queue, item)

\* A pop that returns the front item and leaves it in the queue.
pop_front_Peek(queue) ==
  IF Len(queue) = 0 THEN [item |-> None, rest |-> queue]
                    ELSE [item |-> Some(Head(queue)), rest |-> queue]

\* A pop at the wrong end of the queue.
pop_front_Back(queue) ==
  IF Len(queue) = 0
    THEN [item |-> None, rest |-> queue]
    ELSE [item |-> Some(queue[Len(queue)]),
          rest |-> SubSeq(queue, 1, Len(queue) - 1)]

\* VecDeque::pop_front: the Option it returns and the queue it leaves.
pop_front(queue) ==
  IF Len(queue) = 0 THEN [item |-> None, rest |-> queue]
                    ELSE [item |-> Some(Head(queue)), rest |-> Tail(queue)]

----------------------------------------------------------------------------
\* Reconstruction: RawThreadProfile::profile

\* QueryPerformanceFrequency, in ticks per microsecond (10 MHz, the value of
\* current Windows versions).
FrequencyMHz == 10

\* RecordingTimestamp::to_nanoseconds: 1_000_000_000 * ticks / frequency in
\* i128.  Both factors are divided by 1_000_000 here, which leaves the
\* quotient unchanged and keeps the product within TLC's integers.
to_nanoseconds(ts) == (1000 * ts) \div FrequencyMHz

Instant_new(nanoseconds) == [nanoseconds |-> nanoseconds]

\* A conversion that keeps only the name of the region.
Region_from_NameOnly(region_record_backend) ==
  [name |-> region_record_backend.name, file |-> "", line |-> 0]

\* impl From<&RegionRecordBackend> for Region
Region_from(region_record_backend) ==
  [name |-> region_record_backend.name,
   file |-> region_record_backend.file,
   line |-> region_record_backend.line]

\* BTreeMap::new()
EmptyMap == [k \in {} |-> <<>>]

\* map.entry(k).and_modify(|v| v.push(x)).or_insert(vec![x])
MapPush(map, k, x) ==
  IF k \in DOMAIN map
    THEN [map EXCEPT ![k] = Append(@, x)]
    ELSE [j \in DOMAIN map \cup {k} |-> IF j = k THEN <<x>> ELSE map[j]]

\* The first loop of profile(), from position index on: the indices of the
\* roots and the map from an index to the indices of its children.
RECURSIVE index_pass(_, _, _, _)
index_pass(region_backends, index, roots, children_indices) ==
  IF index >= Len(region_backends)
    THEN [root_region_execution_indices |-> roots,
          children_indices |-> children_indices]
    ELSE LET region_backend == region_backends[index + 1]
         IN IF IsSome(region_backend.parent)
              THEN index_pass(region_backends, index + 1, roots,
                     MapPush(children_indices,
                             Unwrap(region_backend.parent), index))
              ELSE index_pass(region_backends, index + 1,
                     Append(roots, index), children_indices)

\* generate_region_execution returns the RegionExecution of index and the
\* regions map after the call; generate_children is its loop over the
\* children, from position k of indices on.
RECURSIVE generate_region_execution(_, _, _, _)
RECURSIVE generate_children(_, _, _, _, _, _)

\* A loop that collects the children in reverse.
generate_children_Reversed(self, indices, k, children_indices, regions, children) ==
  IF k > Len(indices)
    THEN [children |-> children, regions |-> regions]
    ELSE LET child == generate_region_execution(self, indices[k],
                                                children_indices, regions)
         IN generate_children(self, indices, k + 1, children_indices,
                              child.regions,
                              <<child.region_execution>> \o children)

generate_children(self, indices, k, children_indices, regions, children) ==
  IF k > Len(indices)
    THEN [children |-> children, regions |-> regions]
    ELSE LET child == generate_region_execution(self, indices[k],
                                                children_indices, regions)
         IN generate_children(self, indices, k + 1, children_indices,
                              child.regions,
                              Append(children, child.region_execution))

\* A reconstruction that registers an execution in the regions map before
\* the executions of its children.
generate_region_execution_ParentFirst(self, index, children_indices, regions) ==
  LET region_backend == self.region_backends[index + 1]
      indices == IF index \in DOMAIN children_indices
                   THEN children_indices[index] ELSE <<>>
      region == Region_from(region_backend)
      region_execution ==
        [children |-> generate_children(self, indices, 1, children_indices,
                                        regions, <<>>).children,
         region |-> region,
         start |-> Instant_new(to_nanoseconds(region_backend.start)),
         end |-> Instant_new(to_nanoseconds(Unwrap(region_backend.end)))]
      sub == generate_children(self, indices, 1, children_indices,
                               MapPush(regions, region, region_execution),
                               <<>>)
  IN [region_execution |-> region_execution, regions |-> sub.regions]

generate_region_execution(self, index, children_indices, regions) ==
  LET region_backend == self.region_backends[index + 1]
      indices == IF index \in DOMAIN children_indices
                   THEN children_indices[index] ELSE <<>>
      sub == generate_children(self, indices, 1, children_indices, regions,
                               <<>>)
      region == Region_from(region_backend)
      region_execution ==
        [children |-> sub.children,
         region |-> region,
         start |-> Instant_new(to_nanoseconds(region_backend.start)),
         end |-> Instant_new(to_nanoseconds(Unwrap(region_backend.end)))]
  IN [region_execution |-> region_execution,
      regions |-> MapPush(sub.regions, region, region_execution)]

\* The second loop of profile(), from position k of the root indices on.
RECURSIVE root_pass(_, _, _, _, _, _)
root_pass(self, roots, k, children_indices, regions, root_region_executions) ==
  IF k > Len(roots)
    THEN [thread_id |-> self.thread_id,
          regions |-> regions,
          root_region_executions |-> root_region_executions]
    ELSE LET root == generate_region_execution(self, roots[k],
                                               children_indices, regions)
         IN root_pass(self, roots, k + 1, children_indices, root.regions,
                      Append(root_region_executions, root.region_execution))

\* RawThreadProfile::profile
profile(self) ==
  LET first == index_pass(self.region_backends, 0, <<>>, EmptyMap)
  IN root_pass(self, first.root_region_execution_indices, 1,
               first.children_indices, EmptyMap, <<>>)

\* profile() panics on an activation without an end (expect, line 272).
ProfilePanics(self) ==
  \E i \in 1..Len(self.region_backends) :
    ~IsSome(self.region_backends[i].end)

----------------------------------------------------------------------------
\* Trace export: ToChromeTracing for ThreadProfile

\* Bound on the number of RegionRecord::new calls in one behaviour of
\* ExportSpec.
MaxExportOpens == 4

\* std::process::id() of the exporting process.
Pid == 7

\* The sinks a caller passes to to_chrome_tracing: a writer over a buffer
\* with room for a number of tokens, as &mut [u8] or Cursor<&mut [u8]> are
\* (a Vec<u8> is a sink that never runs out of room).  A token is one event
\* object or one separator.
SinkRooms == {1, 2, 4, 16}

\* The byte string b"," that traverse writes after an event object.
Separator == [bytes |-> ","]

Sink(room) == [written |-> <<>>, room |-> room]

\* Write::write_all(bytes): Err (WriteZero) when the sink is full.
write_all(target, token) ==
  IF target.room = 0
    THEN [target |-> target, ok |-> FALSE]
    ELSE [target |-> [written |-> Append(target.written, token),
                      room |-> target.room - 1],
          ok |-> TRUE]

\* Write::write(bytes) of a one-byte buffer: Ok(0) and nothing written when
\* the sink is full, Ok(1) otherwise; traverse ignores the count.
write(target, token) ==
  IF target.room = 0
    THEN [target |-> target, ok |-> TRUE]
    ELSE [target |-> [written |-> Append(target.written, token),
                      room |-> target.room - 1],
          ok |-> TRUE]

\* nanoseconds as f64 / 1000.0: microseconds with three decimals.
Microseconds(nanoseconds) ==
  [whole |-> nanoseconds \div 1000, thousandths |-> nanoseconds % 1000]

\* json::object!{name, ph, ts, dur, pid, tid} of traverse, lines 286-295.
Event(region_execution, pid, tid) ==
  [name |-> region_execution.region.name,
   ph |-> "X",
   ts |-> Microseconds(region_execution.start.nanoseconds),
   dur |-> Microseconds(region_execution.end.nanoseconds
                          - region_execution.start.nanoseconds),
   pid |-> pid,
   tid |-> tid]

\* traverse returns the sink after the call and whether the call returned
\* Ok; traverse_children is its loop over the children, from position k on.
RECURSIVE traverse(_, _, _, _)
RECURSIVE traverse_children(_, _, _, _, _)

traverse_children(children, k, target, pid, tid) ==
  IF k > Len(children)
    THEN [target |-> target, ok |-> TRUE]
    ELSE LET child == traverse(children[k], target, pid, tid)
         IN IF child.ok
              THEN traverse_children(children, k + 1, child.target, pid, tid)
              ELSE child

\* A traversal that writes the event of a node after those of its children.
traverse_ChildrenFirst(region_execution, target, pid, tid) ==
  LET sub == traverse_children(region_execution.children, 1, target, pid,
                               tid)
      data == IF sub.ok
                THEN write_all(sub.target,
                               Event(region_execution, pid, tid))
                ELSE sub
  IN IF data.ok THEN write(data.target, Separator) ELSE data

traverse(region_execution, target, pid, tid) ==
  LET data == write_all(target, Event(region_execution, pid, tid))
      comma == IF data.ok THEN write(data.target, Separator) ELSE data
  IN IF comma.ok
       THEN traverse_children(region_execution.children, 1, comma.target,
                              pid, tid)
       ELSE comma

\* The loop of to_chrome_tracing over the roots, from position k on.
RECURSIVE traverse_roots(_, _, _, _)
traverse_roots(self, k, target, pid) ==
  IF k > Len(self.root_region_executions)
    THEN [target |-> target, ok |-> TRUE]
    ELSE LET root == traverse(self.root_region_executions[k], target, pid,
                              self.thread_id)
         IN IF root.ok
              THEN traverse_roots(self, k + 1, root.target, pid)
              ELSE root

\* ThreadProfile::to_chrome_tracing
to_chrome_tracing(self, target) == traverse_roots(self, 1, target, Pid)

----------------------------------------------------------------------------
\* Actions

Init ==
  /\ thread_local = [t \in Threads |-> ThreadLocal_new(t)]
  /\ profiles = <<>>
  /\ mutex = None
  /\ pc = [t \in Threads |-> "idle"]
  /\ clock = [t \in Threads |-> 0]
  /\ guards = {}
  /\ opened = 0
  /\ ret = [t \in Threads |-> None]
  /\ delivered = <<>>
  /\ thread_profile = [t \in Threads |-> None]
  /\ gen_log = [t \in Threads |-> <<>>]
  /\ completed = [t \in Threads |-> 0]
  /\ pushed = <<>>
  /\ exported = [t \in Threads |-> None]
  /\ leaked = {}

\* RegionRecord::new(name, file, line) on thread t.
Open(t, region, limit) ==
  /\ pc[t] = "idle"
  /\ opened < limit
  /\ thread_local' = [thread_local EXCEPT
                        ![t] = RegionRecord_new(@, t, region, now(t))]
  /\ clock' = [clock EXCEPT ![t] = now(t)]
  /\ guards' = guards \cup {Guard(t, now(t))}
  /\ opened' = opened + 1
  /\ gen_log' = [gen_log EXCEPT
                   ![t] = (IF Len(thread_local[t].stack) = 0 THEN <<>> ELSE @)
                          \o <<[region |-> region, start |-> now(t)]>>]
  /\ UNCHANGED <<profiles, mutex, pc, ret, delivered, thread_profile, exported,
                 completed, pushed, leaked>>

\* A RegionRecord g is dropped on thread t: lines 101-113 of drop, up to the
\* test of the stack at line 116.
Close(t, g) ==
  /\ pc[t] = "idle"
  /\ g \in guards
  /\ ~DropPanics(thread_local[t])
  /\ guards' = guards \ {g}
  /\ clock' = [clock EXCEPT ![t] = now(t)]
  /\ thread_local' = [thread_local EXCEPT ![t] = DropLocal(@, now(t))]
  /\ pc' = [pc EXCEPT ![t] = IF StackIsEmpty(thread_local'[t])
                               THEN "drop_lock" ELSE "idle"]
  /\ completed' = [completed EXCEPT
                     ![t] = IF Len(thread_local'[t].stack) = 0
                              THEN @ + 1 ELSE @]
  /\ UNCHANGED <<profiles, mutex, opened, ret, delivered, thread_profile,
                 exported, gen_log, pushed, leaked>>

\* A drop that locks the queue before it looks at the stack, and panics
\* holding the mutex.
ClosePanic_AfterLock(t, g) ==
  /\ pc[t] = "idle"
  /\ g \in guards
  /\ DropPanics(thread_local[t])
  /\ mutex = None
  /\ mutex' = Some(t)
  /\ guards' = guards \ {g}
  /\ clock' = [clock EXCEPT ![t] = now(t)]
  /\ UNCHANGED <<thread_local, profiles, pc, opened, ret, delivered,
                 thread_profile, exported, gen_log, completed, pushed, leaked>>

\* A RegionRecord g is dropped on a thread whose stack is empty: drop panics.
ClosePanic(t, g) ==
  /\ pc[t] = "idle"
  /\ g \in guards
  /\ DropPanics(thread_local[t])
  /\ guards' = guards \ {g}
  /\ clock' = [clock EXCEPT ![t] = now(t)]
  /\ UNCHANGED <<thread_local, profiles, mutex, pc, opened, ret, delivered,
                 thread_profile, exported,
                 gen_log, completed, pushed, leaked>>

\* A RegionRecord is leaked (mem::forget): it is never dropped.
Forget(g) ==
  /\ g \in guards
  /\ guards' = guards \ {g}
  /\ leaked' = leaked \cup {g}
  /\ UNCHANGED <<thread_local, profiles, mutex, pc, clock, opened, ret,
                 delivered, thread_profile, exported,
                 gen_log, completed, pushed>>

\* drop, line 117: GLOBAL.lock().
DropLock(t) ==
  /\ pc[t] = "drop_lock"
  /\ mutex = None
  /\ mutex' = Some(t)
  /\ pc' = [pc EXCEPT ![t] = "drop_push"]
  /\ UNCHANGED <<thread_local, profiles, clock, guards, opened, ret,
                 delivered, thread_profile, exported,
                 gen_log, completed, pushed, leaked>>

\* A hand-off that pushes a copy and leaves the profile in the slot.
DropPush_KeepsProfile(t) ==
  /\ pc[t] = "drop_push"
  /\ IsSome(thread_local[t].raw_thread_profile)
  /\ profiles' =
       push_back(profiles, Unwrap(thread_local[t].raw_thread_profile))
  /\ mutex' = None
  /\ pc' = [pc EXCEPT ![t] = "drop_notify"]
  /\ pushed' = Append(pushed, Unwrap(thread_local[t].raw_thread_profile))
  /\ UNCHANGED <<thread_local, clock, guards, opened, ret, delivered,
                 thread_profile, exported, gen_log, completed,
                 leaked>>

\* drop, lines 118-123: take() the profile, push_back, drop(g).
DropPush(t) ==
  /\ pc[t] = "drop_push"
  /\ IsSome(thread_local[t].raw_thread_profile)
  /\ profiles' =
       push_back(profiles, Unwrap(thread_local[t].raw_thread_profile))
  /\ thread_local' = [thread_local EXCEPT ![t].raw_thread_profile = None]
  /\ mutex' = None
  /\ pc' = [pc EXCEPT ![t] = "drop_notify"]
  /\ pushed' = Append(pushed, Unwrap(thread_local[t].raw_thread_profile))
  /\ UNCHANGED <<clock, guards, opened, ret, delivered, thread_profile,
                 exported, gen_log, completed, leaked>>

\* A hand-off that wakes nobody.
DropNotify_Lost(t) ==
  /\ pc[t] = "drop_notify"
  /\ pc' = [pc EXCEPT ![t] = "idle"]
  /\ UNCHANGED <<thread_local, profiles, mutex, clock, guards, opened, ret,
                 delivered, thread_profile, exported, gen_log, completed,
                 pushed, leaked>>

\* drop, line 124: CONDVAR.notify_one() wakes one waiting thread, if any.
DropNotify(t) ==
  /\ pc[t] = "drop_notify"
  /\ \/ \E w \in Threads :
          /\ pc[w] = "recv_wait"
          /\ pc' = [pc EXCEPT ![t] = "idle", ![w] = "recv_woken"]
     \/ /\ \A w \in Threads : pc[w] # "recv_wait"
        /\ pc' = [pc EXCEPT ![t] = "idle"]
  /\ UNCHANGED <<thread_local, profiles, mutex, clock, guards, opened, ret,
                 delivered, thread_profile, exported,
                 gen_log, completed, pushed, leaked>>

\* recv, line 141: GLOBAL.lock().
RecvLock(t) ==
  /\ pc[t] = "idle"
  /\ mutex = None
  /\ mutex' = Some(t)
  /\ pc' = [pc EXCEPT ![t] = "recv_loop"]
  /\ UNCHANGED <<thread_local, profiles, clock, guards, opened, ret,
                 delivered, thread_profile, exported,
                 gen_log, completed, pushed, leaked>>

\* A wait that parks the thread without releasing the mutex.
RecvWait_KeepsMutex(t) ==
  /\ pc[t] = "recv_loop"
  /\ Len(profiles) = 0
  /\ mutex' = mutex
  /\ pc' = [pc EXCEPT ![t] = "recv_wait"]
  /\ UNCHANGED <<thread_local, profiles, clock, guards, opened, ret,
                 delivered, thread_profile, exported,
                 gen_log, completed, pushed, leaked>>

\* recv, lines 142-143: the queue is empty, CONDVAR.wait(g) releases the
\* mutex and parks the thread.
RecvWait(t) ==
  /\ pc[t] = "recv_loop"
  /\ Len(profiles) = 0
  /\ mutex' = None
  /\ pc' = [pc EXCEPT ![t] = "recv_wait"]
  /\ UNCHANGED <<thread_local, profiles, clock, guards, opened, ret,
                 delivered, thread_profile, exported,
                 gen_log, completed, pushed, leaked>>

\* recv, line 145: pop_front and return; the MutexGuard is dropped.
RecvPop(t) ==
  /\ pc[t] = "recv_loop"
  /\ Len(profiles) > 0
  /\ profiles' = pop_front(profiles).rest
  /\ ret' = [ret EXCEPT ![t] = pop_front(profiles).item]
  /\ delivered' = Append(delivered, [by |-> t,
                                     profile |-> Unwrap(pop_front(profiles).item)])
  /\ mutex' = None
  /\ pc' = [pc EXCEPT ![t] = "idle"]
  /\ UNCHANGED <<thread_local, clock, guards, opened, thread_profile, exported,
                 gen_log, completed, pushed, leaked>>

\* Condvar::wait may return without a notification.
SpuriousWakeup(t) ==
  /\ pc[t] = "recv_wait"
  /\ pc' = [pc EXCEPT ![t] = "recv_woken"]
  /\ UNCHANGED <<thread_local, profiles, mutex, clock, guards, opened, ret,
                 delivered, thread_profile, exported,
                 gen_log, completed, pushed, leaked>>

\* recv, line 143: CONDVAR.wait returns after re-acquiring the mutex.
RecvRelock(t) ==
  /\ pc[t] = "recv_woken"
  /\ mutex = None
  /\ mutex' = Some(t)
  /\ pc' = [pc EXCEPT ![t] = "recv_loop"]
  /\ UNCHANGED <<thread_local, profiles, clock, guards, opened, ret,
                 delivered, thread_profile, exported,
                 gen_log, completed, pushed, leaked>>

\* try_recv, line 149: GLOBAL.lock().
TryRecvLock(t) ==
  /\ pc[t] = "idle"
  /\ mutex = None
  /\ mutex' = Some(t)
  /\ pc' = [pc EXCEPT ![t] = "try_recv_pop"]
  /\ UNCHANGED <<thread_local, profiles, clock, guards, opened, ret,
                 delivered, thread_profile, exported,
                 gen_log, completed, pushed, leaked>>

\* try_recv, line 150: pop_front() is the return value.
TryRecvPop(t) ==
  /\ pc[t] = "try_recv_pop"
  /\ profiles' = pop_front(profiles).rest
  /\ ret' = [ret EXCEPT ![t] = pop_front(profiles).item]
  /\ delivered' =
       IF IsSome(pop_front(profiles).item)
         THEN Append(delivered, [by |-> t,
                                 profile |-> Unwrap(pop_front(profiles).item)])
         ELSE delivered
  /\ mutex' = None
  /\ pc' = [pc EXCEPT ![t] = "idle"]
  /\ UNCHANGED <<thread_local, clock, guards, opened, thread_profile, exported,
                 gen_log, completed, pushed, leaked>>

\* p.profile() on the profile the thread received last.
Profile(t) ==
  /\ pc[t] = "idle"
  /\ IsSome(ret[t])
  /\ ~ProfilePanics(Unwrap(ret[t]))
  /\ thread_profile' = [thread_profile EXCEPT
                          ![t] = Some(profile(Unwrap(ret[t])))]
  /\ UNCHANGED <<thread_local, profiles, mutex, pc, clock, guards, opened,
                 ret, delivered, gen_log, completed, pushed, exported, leaked>>

\* tp.to_chrome_tracing(&mut target) on the ThreadProfile the thread
\* reconstructed last, with a fresh sink of the given room.
Export(t, room) ==
  /\ pc[t] = "idle"
  /\ IsSome(thread_profile[t])
  /\ exported' = [exported EXCEPT
                    ![t] = Some(to_chrome_tracing(Unwrap(thread_profile[t]),
                                                  Sink(room)))]
  /\ UNCHANGED <<thread_local, profiles, mutex, pc, clock, guards, opened,
                 ret, delivered, thread_profile, gen_log, completed, pushed,
                 leaked>>

Next ==
  \/ \E t \in Recorders : \E region \in CallSites(t) :
        Open(t, region, MaxOpens)
  \/ \E t \in Recorders, g \in guards : Close(t, g)
  \/ \E t \in Recorders, g \in guards : ClosePanic(t, g)
  \/ \E g \in guards : Forget(g)
  \/ \E t \in Recorders : DropLock(t)
  \/ \E t \in Recorders : DropPush(t)
  \/ \E t \in Recorders : DropNotify(t)
  \/ \E t \in Consumers : RecvLock(t)
  \/ \E t \in Consumers : RecvWait(t)
  \/ \E t \in Consumers : RecvPop(t)
  \/ \E t \in Consumers : SpuriousWakeup(t)
  \/ \E t \in Consumers : RecvRelock(t)
  \/ \E t \in Consumers : TryRecvLock(t)
  \/ \E t \in Consumers : TryRecvPop(t)

Spec == Init /\ [][Next]_vars

\* One thread records, receives and reconstructs, with every call site.
ProfileNext ==
  \/ \E region \in Regions : Open(Main, region, MaxProfileOpens)
  \/ \E g \in guards : Close(Main, g)
  \/ DropLock(Main)
  \/ DropPush(Main)
  \/ DropNotify(Main)
  \/ RecvLock(Main)
  \/ RecvPop(Main)
  \/ TryRecvLock(Main)
  \/ TryRecvPop(Main)
  \/ Profile(Main)

ProfileSpec == Init /\ [][ProfileNext]_vars

\* One thread records, receives, reconstructs and exports.
ExportNext ==
  \/ \E region \in Regions : Open(Main, region, MaxExportOpens)
  \/ \E g \in guards : Close(Main, g)
  \/ DropLock(Main)
  \/ DropPush(Main)
  \/ DropNotify(Main)
  \/ RecvLock(Main)
  \/ RecvPop(Main)
  \/ Profile(Main)
  \/ \E room \in SinkRooms : Export(Main, room)

ExportSpec == Init /\ [][ExportNext]_vars

\* Two threads record and drop their own guards, two threads receive.
FairNext ==
  \/ \E t \in Recorders : \E region \in CallSites(t) :
        Open(t, region, MaxFairOpens)
  \/ \E t \in Recorders : \E g \in {h \in guards : h.thread = t} :
        Close(t, g)
  \/ \E t \in Recorders : DropLock(t)
  \/ \E t \in Recorders : DropPush(t)
  \/ \E t \in Recorders : DropNotify(t)
  \/ \E t \in Consumers : RecvLock(t)
  \/ \E t \in Consumers : RecvWait(t)
  \/ \E t \in Consumers : RecvPop(t)
  \/ \E t \in Consumers : SpuriousWakeup(t)
  \/ \E t \in Consumers : RecvRelock(t)
  \/ \E t \in Consumers : TryRecvLock(t)
  \/ \E t \in Consumers : TryRecvPop(t)

\* The next step of a thread that is inside drop, recv or try_recv.  Calling
\* one of them is up to the program; once inside, a thread that can run
\* does run.
Continue(t) ==
  \/ DropLock(t)
  \/ DropPush(t)
  \/ DropNotify(t)
  \/ RecvWait(t)
  \/ RecvPop(t)
  \/ RecvRelock(t)
  \/ TryRecvPop(t)

FairSpec ==
  /\ Init
  /\ [][FairNext]_vars
  /\ \A t \in Threads : WF_vars(Continue(t))
\* FairSpec with a fair mutex: a thread that is blocked in GLOBAL.lock()
\* while the mutex is free again and again does acquire it.
LockFairSpec ==
  /\ Init
  /\ [][FairNext]_vars
  /\ \A t \in Threads : WF_vars(Continue(t))
  /\ \A t \in Recorders : SF_vars(DropLock(t))
  /\ \A t \in Consumers : SF_vars(RecvRelock(t))
----------------------------------------------------------------------------
\* Properties

\* A thread is inside the hand-off part of drop (lines 116-125).
InHandoff(t) == pc[t] \in {"drop_lock", "drop_push", "drop_notify"}

\* C1: a close appends a profile to the queue if and only if it empties the
\* stack of its thread.  A step that opens a region, or closes one and
\* leaves the stack non-empty, leaves the queue unchanged and ends the
\* operation; a close that empties the stack goes on to the hand-off, which
\* it leaves only by appending exactly one profile, the whole activation
\* list of the generation, and emptying the thread-local slot; and the queue
\* never grows in any other way.
C1_HandoffIffStackEmptied ==
  [][ /\ \A t \in Threads :
          LET before == thread_local[t]
              after == thread_local'[t]
              opens == Len(after.stack) > Len(before.stack)
              closes == Len(after.stack) < Len(before.stack)
          IN /\ opens => /\ profiles' = profiles
                         /\ ~InHandoff(t)'
             /\ (closes /\ Len(after.stack) > 0) =>
                   /\ profiles' = profiles
                   /\ ~InHandoff(t)'
             /\ (closes /\ Len(after.stack) = 0) =>
                   /\ profiles' = profiles
                   /\ pc'[t] = "drop_lock"
             /\ (pc[t] = "drop_lock" /\ pc'[t] # "drop_lock") =>
                   /\ pc'[t] = "drop_push"
                   /\ profiles' = profiles
                   /\ after = before
             /\ (pc[t] = "drop_push" /\ pc'[t] # "drop_push") =>
                   /\ pc'[t] = "drop_notify"
                   /\ IsSome(before.raw_thread_profile)
                   /\ profiles' =
                        Append(profiles, Unwrap(before.raw_thread_profile))
                   /\ Len(Unwrap(before.raw_thread_profile).region_backends)
                        = Len(gen_log[t])
                   /\ after.raw_thread_profile = None
      /\ Len(profiles') > Len(profiles) =>
          /\ Len(profiles') = Len(profiles) + 1
          /\ \E t \in Threads :
               /\ pc[t] = "drop_push"
               /\ Len(thread_local[t].stack) = 0
               /\ pc'[t] = "drop_notify"
    ]_vars

\* A thread has just handed off a generation of two or more activations.
C1_Witness ==
  \E t \in Threads :
    /\ pc[t] = "drop_notify"
    /\ thread_local[t].raw_thread_profile = None
    /\ Len(profiles) > 0
    /\ profiles[Len(profiles)].thread_id = t
    /\ Len(profiles[Len(profiles)].region_backends) >= 2

\* The region identity of an activation: its (name, file, line) triple.
Identity(activation) ==
  [name |-> activation.name, file |-> activation.file,
   line |-> activation.line]

\* The number of generations that have completed, on all threads.
RECURSIVE SumOver(_, _)
SumOver(f, S) ==
  IF S = {} THEN 0
  ELSE LET x == CHOOSE y \in S : TRUE IN f[x] + SumOver(f, S \ {x})

TotalCompleted == SumOver(completed, Threads)

\* The profiles that were popped from the queue, in the order of the pops.
DeliveredProfiles == [i \in 1..Len(delivered) |-> delivered[i].profile]

\* The activations of a profile, each named by its thread and start time.
ActivationIds(p) ==
  {<<p.thread_id, p.region_backends[i].start>> :
     i \in 1..Len(p.region_backends)}

\* C2: a profile holds exactly the activations opened in its own generation:
\* the profile a thread pushes has one activation per RegionRecord::new call
\* since the thread's stack was last empty, in call order from position 0,
\* with the region and start time of that call, its first activation is a
\* root and every parent is an earlier position; and when only one
\* generation has completed, the queue is empty right after a receive.
C2_ProfileIsItsGeneration ==
  [][ /\ \A t \in Threads :
           (pc[t] = "drop_push" /\ pc'[t] # "drop_push") =>
             /\ Len(profiles') = Len(profiles) + 1
             /\ LET backends == profiles'[Len(profiles')].region_backends
                IN /\ Len(backends) = Len(gen_log[t])
                   /\ Len(backends) > 0
                   /\ backends[1].parent = None
                   /\ \A i \in 1..Len(backends) :
                        /\ Identity(backends[i]) = gen_log[t][i].region
                        /\ backends[i].start = gen_log[t][i].start
                        /\ IsSome(backends[i].parent) =>
                             Unwrap(backends[i].parent) \in 0..(i - 2)
      /\ (Len(delivered') > Len(delivered) /\ TotalCompleted = 1) =>
           profiles' = <<>>
    ]_vars

\* A thread's second generation, of two activations, has been received and
\* the queue is empty.
C2_Witness ==
  /\ Len(delivered) = 2
  /\ delivered[1].profile.thread_id = delivered[2].profile.thread_id
  /\ Len(delivered[1].profile.region_backends) = 1
  /\ Len(delivered[2].profile.region_backends) = 2
  /\ profiles = <<>>

\* The profiles of one producing thread occur in seq in the order of their
\* generations (a later generation starts at a later time of its thread).
SameProducerInOrder(seq) ==
  \A i, j \in 1..Len(seq) :
    (i < j /\ seq[i].thread_id = seq[j].thread_id) =>
      seq[i].region_backends[1].start < seq[j].region_backends[1].start

\* C3: the queue is FIFO: it changes only by a push at the back or by the
\* removal of its front item, every receive takes the front item, and the
\* profiles of any one producing thread leave the queue in the order in
\* which the thread completed them.
C3_Fifo ==
  [][ /\ profiles' # profiles =>
           \/ \E t \in Threads :
                /\ pc[t] = "drop_push"
                /\ IsSome(thread_local[t].raw_thread_profile)
                /\ profiles' =
                     Append(profiles, Unwrap(thread_local[t].raw_thread_profile))
           \/ /\ Len(profiles) > 0
              /\ profiles' = Tail(profiles)
              /\ delivered' # delivered
      /\ delivered' # delivered =>
           /\ Len(profiles) > 0
           /\ profiles' = Tail(profiles)
           /\ Len(delivered') = Len(delivered) + 1
           /\ SubSeq(delivered', 1, Len(delivered)) = delivered
           /\ delivered'[Len(delivered')].profile = Head(profiles)
      /\ SameProducerInOrder(DeliveredProfiles \o profiles)'
    ]_vars

\* Two generations of one producer were received by different consumers
\* while a profile of the other producer is still queued.
C3_Witness ==
  /\ Len(delivered) = 2
  /\ delivered[1].profile.thread_id = delivered[2].profile.thread_id
  /\ delivered[1].by # delivered[2].by
  /\ Len(profiles) = 1
  /\ profiles[1].thread_id # delivered[1].profile.thread_id

\* C5: a profile is delivered at most once and has one holder at a time:
\* every delivered profile was pushed, no pushed profile is delivered twice,
\* no delivered profile is still in the queue, no two pushed profiles share
\* an activation, and no session refers to an activation of a pushed profile.
C5_DeliveredAtMostOnce ==
  /\ \A i \in 1..Len(delivered) :
       \E k \in 1..Len(pushed) : pushed[k] = delivered[i].profile
  /\ \A k \in 1..Len(pushed) :
       Cardinality({i \in 1..Len(delivered) :
                      delivered[i].profile = pushed[k]})
       + Cardinality({i \in 1..Len(profiles) : profiles[i] = pushed[k]}) = 1
  /\ \A k, l \in 1..Len(pushed) :
       k # l => ActivationIds(pushed[k]) \cap ActivationIds(pushed[l]) = {}
  /\ \A t \in Threads :
       /\ IsSome(ret[t]) =>
            \E i \in 1..Len(delivered) :
              delivered[i] = [by |-> t, profile |-> Unwrap(ret[t])]
       /\ IsSome(thread_local[t].raw_thread_profile) =>
            \A k \in 1..Len(pushed) :
              ActivationIds(Unwrap(thread_local[t].raw_thread_profile))
                \cap ActivationIds(pushed[k]) = {}

\* Both consumers hold a profile of the same producer, which has started a
\* new generation.
C5_Witness ==
  /\ Len(delivered) = 2
  /\ delivered[1].by # delivered[2].by
  /\ LET t == delivered[1].profile.thread_id
     IN /\ delivered[2].profile.thread_id = t
        /\ IsSome(thread_local[t].raw_thread_profile)
        /\ Len(thread_local[t].stack) > 0

\* C6: try_recv never waits: from the pop it returns at once, with the
\* front item removed from a non-empty queue, and with None and the queue
\* unchanged when the queue is empty; when every completed generation has
\* been received it returns None.
C6_TryRecv ==
  [][ \A t \in Threads :
        pc[t] = "try_recv_pop" =>
          /\ pc'[t] \in {"try_recv_pop", "idle"}
          /\ pc'[t] = "idle" =>
               /\ Len(profiles) > 0 =>
                    /\ ret'[t] = Some(Head(profiles))
                    /\ profiles' = Tail(profiles)
               /\ Len(profiles) = 0 =>
                    /\ ret'[t] = None
                    /\ profiles' = profiles
                    /\ delivered' = delivered
               /\ Len(delivered) = TotalCompleted => ret'[t] = None
    ]_vars

\* A consumer that received a profile earlier got None from try_recv after
\* every completed generation had been received.
C6_Witness ==
  \E t \in Threads :
    /\ pc[t] = "idle"
    /\ ret[t] = None
    /\ \E i \in 1..Len(delivered) : delivered[i].by = t
    /\ Len(delivered) = TotalCompleted
    /\ Len(delivered) = 2

\* C7: recording on different threads is independent: a session and every
\* pushed profile carry the id of the thread that recorded them and hold only
\* regions of that thread's call sites; when both recording threads have
\* opened and closed one region each and both profiles are received, they
\* are two profiles of one activation, one per thread, and the queue is
\* empty.
C7_ThreadsIndependent ==
  /\ \A t \in Threads :
       IsSome(thread_local[t].raw_thread_profile) =>
         LET p == Unwrap(thread_local[t].raw_thread_profile)
         IN /\ p.thread_id = t
            /\ \A i \in 1..Len(p.region_backends) :
                 Identity(p.region_backends[i]) \in CallSites(t)
  /\ \A k \in 1..Len(pushed) :
       /\ pushed[k].thread_id \in Recorders
       /\ \A i \in 1..Len(pushed[k].region_backends) :
            Identity(pushed[k].region_backends[i])
              \in CallSites(pushed[k].thread_id)
  /\ (/\ opened = 2
      /\ \A t \in Recorders : completed[t] = 1
      /\ Len(delivered) = 2) =>
       /\ profiles = <<>>
       /\ \A i \in 1..2 : Len(delivered[i].profile.region_backends) = 1
       /\ {delivered[i].profile.thread_id : i \in 1..2} = Recorders

\* Both threads recorded one region each; the profile of thread 2 was
\* received first.
C7_Witness ==
  /\ opened = 2
  /\ \A t \in Recorders : completed[t] = 1
  /\ Len(delivered) = 2
  /\ delivered[1].profile.thread_id = 2
  /\ delivered[2].profile.thread_id = 1
  /\ delivered[1].profile.region_backends[1].name = "work"
  /\ delivered[2].profile.region_backends[1].name = "main"

\* The executions of a forest in pre-order.
RECURSIVE PreOrder(_)
PreOrder(forest) ==
  IF Len(forest) = 0 THEN <<>>
  ELSE <<Head(forest)>> \o PreOrder(Head(forest).children)
                        \o PreOrder(Tail(forest))

\* The elements of a finite set of numbers in increasing order.
RECURSIVE Increasing(_)
Increasing(S) ==
  IF S = {} THEN <<>>
  ELSE LET m == CHOOSE x \in S : \A y \in S : x <= y
       IN <<m>> \o Increasing(S \ {m})

\* The indices of the activations of raw that an execution can stand for:
\* those with its start time, end time and identity.
IndicesOf(raw, execution) ==
  {i \in 0..(Len(raw.region_backends) - 1) :
     LET activation == raw.region_backends[i + 1]
     IN /\ to_nanoseconds(activation.start) = execution.start.nanoseconds
        /\ IsSome(activation.end)
        /\ to_nanoseconds(Unwrap(activation.end)) = execution.end.nanoseconds
        /\ Identity(activation) = execution.region}

IndexOf(raw, execution) == CHOOSE i \in IndicesOf(raw, execution) : TRUE

IndexSeq(raw, executions) ==
  [k \in 1..Len(executions) |-> IndexOf(raw, executions[k])]

\* tp is the forest of raw: one execution per activation, the roots are the
\* activations without a parent and the children of the execution of index
\* i are the activations with parent i, both in increasing index order.
IsForestOf(raw, tp) ==
  LET backends == raw.region_backends
      n == Len(backends)
      nodes == PreOrder(tp.root_region_executions)
  IN /\ tp.thread_id = raw.thread_id
     /\ Len(nodes) = n
     /\ \A k \in 1..n : Cardinality(IndicesOf(raw, nodes[k])) = 1
     /\ {IndexOf(raw, nodes[k]) : k \in 1..n} = 0..(n - 1)
     /\ IndexSeq(raw, tp.root_region_executions)
          = Increasing({i \in 0..(n - 1) : backends[i + 1].parent = None})
     /\ \A k \in 1..n :
          IndexSeq(raw, nodes[k].children)
            = Increasing({j \in 0..(n - 1) :
                            backends[j + 1].parent
                              = Some(IndexOf(raw, nodes[k]))})

\* C8: reconstruction preserves the parent-index structure: whenever a
\* thread reconstructs the profile it received, the result has exactly one
\* execution per activation, its roots are the activations with parent None
\* in increasing index order, and the children of the execution of index i
\* are exactly the activations with parent i, in increasing index order.
C8_ForestPreservesParents ==
  [][ \A t \in Threads :
        thread_profile'[t] # thread_profile[t] =>
          IsForestOf(Unwrap(ret[t]), Unwrap(thread_profile'[t]))
    ]_vars

\* A reconstructed forest with one root that has two children, the first of
\* which has a child of its own.
C8_Witness ==
  /\ IsSome(thread_profile[Main])
  /\ LET roots == Unwrap(thread_profile[Main]).root_region_executions
     IN /\ Len(roots) = 1
        /\ Len(roots[1].children) = 2
        /\ Len(roots[1].children[1].children) = 1
        /\ roots[1].region.name = "main"
        /\ roots[1].children[1].region.name = "work"

\* The regions map of tp groups the activations of raw by their triple.
IsIdentityMapOf(raw, tp) ==
  LET backends == raw.region_backends
      n == Len(backends)
  IN /\ DOMAIN tp.regions = {Identity(backends[i]) : i \in 1..n}
     /\ \A key \in DOMAIN tp.regions :
          /\ \A k \in 1..Len(tp.regions[key]) :
               tp.regions[key][k].region = key
          /\ Len(tp.regions[key])
               = Cardinality({i \in 1..n : Identity(backends[i]) = key})
     /\ SumOver([key \in DOMAIN tp.regions |-> Len(tp.regions[key])],
                DOMAIN tp.regions) = n

\* C9: the identity map groups by the full (name, file, line) triple: it has
\* one key per distinct triple of the profile, a bucket holds only
\* executions of its key and as many as the profile has activations of that
\* triple, and the bucket sizes sum to the number of activations.
C9_MapGroupsByTriple ==
  [][ \A t \in Threads :
        thread_profile'[t] # thread_profile[t] =>
          IsIdentityMapOf(Unwrap(ret[t]), Unwrap(thread_profile'[t]))
    ]_vars

\* A root wrapping three sequential children of one identity, which shares
\* its name with the root: the bucket of the children has three entries.
C9_Witness ==
  /\ IsSome(thread_profile[Main])
  /\ LET tp == Unwrap(thread_profile[Main])
         root == tp.root_region_executions[1]
     IN /\ Len(root.children) = 3
        /\ \A k \in 1..3 : root.children[k].region = root.children[1].region
        /\ root.children[1].region.name = root.region.name
        /\ root.children[1].region # root.region
        /\ Len(tp.regions[root.children[1].region]) = 3
        /\ Len(tp.regions[root.region]) = 1

\* Activation i of raw is a proper ancestor of activation j.
RECURSIVE IsAncestor(_, _, _)
IsAncestor(raw, i, j) ==
  LET parent == raw.region_backends[j + 1].parent
  IN /\ IsSome(parent)
     /\ \/ Unwrap(parent) = i
        \/ IsAncestor(raw, i, Unwrap(parent))

\* Every bucket of tp is in increasing creation index.
BucketsByCreation(raw, tp) ==
  \A key \in DOMAIN tp.regions :
    \A a, b \in 1..Len(tp.regions[key]) :
      a < b => IndexOf(raw, tp.regions[key][a])
                 < IndexOf(raw, tp.regions[key][b])

\* Every bucket of tp is in the forest's post-order, the order in which the
\* regions were closed: an execution comes after the executions nested in
\* it, and two executions of which neither is nested in the other are in
\* increasing creation index.
BucketsByCompletion(raw, tp) ==
  \A key \in DOMAIN tp.regions :
    \A a, b \in 1..Len(tp.regions[key]) :
      a < b =>
        LET i == IndexOf(raw, tp.regions[key][a])
            j == IndexOf(raw, tp.regions[key][b])
        IN /\ ~IsAncestor(raw, i, j)
           /\ IsAncestor(raw, j, i) \/ i < j

\* Some activation of raw is nested in an activation of the same identity.
HasSelfNesting(raw) ==
  \E i, j \in 0..(Len(raw.region_backends) - 1) :
    /\ IsAncestor(raw, i, j)
    /\ Identity(raw.region_backends[i + 1])
         = Identity(raw.region_backends[j + 1])

\* C10 as stated: in every reconstructed profile, every bucket of the
\* identity map is in increasing creation index of its activations.
C10_BucketsByCreationIndex ==
  [][ \A t \in Threads :
        thread_profile'[t] # thread_profile[t] =>
          BucketsByCreation(Unwrap(ret[t]), Unwrap(thread_profile'[t]))
    ]_vars

\* C10, amended: in every reconstructed profile every bucket of the identity
\* map is in the order of completion (the forest's post-order: an execution
\* after the executions nested in it, otherwise by creation index), and it
\* is in increasing creation index when no region of the profile is nested
\* in a region of the same identity.
C10_BucketsByCompletion ==
  [][ \A t \in Threads :
        thread_profile'[t] # thread_profile[t] =>
          LET raw == Unwrap(ret[t])
              tp == Unwrap(thread_profile'[t])
          IN /\ BucketsByCompletion(raw, tp)
             /\ ~HasSelfNesting(raw) => BucketsByCreation(raw, tp)
    ]_vars

\* A reconstructed profile in which a region is nested in a region of the
\* same identity, next to a sibling of that identity: the bucket holds the
\* three executions.
C10_Witness ==
  /\ IsSome(thread_profile[Main])
  /\ IsSome(ret[Main])
  /\ thread_profile[Main] = Some(profile(Unwrap(ret[Main])))
  /\ HasSelfNesting(Unwrap(ret[Main]))
  /\ \E key \in DOMAIN Unwrap(thread_profile[Main]).regions :
       Len(Unwrap(thread_profile[Main]).regions[key]) = 3

\* A thread is blocked in recv: parked on the condition variable, or woken
\* and not yet past the mutex.
BlockedInRecv(t) == pc[t] \in {"recv_wait", "recv_woken"}

\* C4: blocking receive has no lost wakeup: a thread leaves recv only by
\* popping an item that is returned to it, and whenever the queue is
\* non-empty while some thread is blocked in recv, an item is eventually
\* removed by some receive.
C4_NoLostWakeup ==
  /\ [][ \A t \in Threads :
           (pc[t] \in {"recv_loop", "recv_wait", "recv_woken"}
              /\ pc'[t] = "idle") =>
             /\ pc[t] = "recv_loop"
             /\ Len(profiles) > 0
             /\ delivered' =
                  Append(delivered, [by |-> t, profile |-> Head(profiles)])
             /\ ret'[t] = Some(Head(profiles))
       ]_vars
  /\ \A n \in 0..(MaxFairOpens + 1) :
       (/\ Len(profiles) > 0
        /\ \E t \in Threads : BlockedInRecv(t)
        /\ Len(delivered) = n) ~> (Len(delivered) > n)

\* Both consumers are parked in recv while a producer has pushed a profile
\* and has not notified yet.
C4_Witness ==
  /\ \A t \in Consumers : pc[t] = "recv_wait"
  /\ Len(profiles) > 0
  /\ \E t \in Recorders : pc[t] = "drop_notify"

\* The event objects among the tokens of a sink, in the order written.
EventsOf(written) == SelectSeq(written, LAMBDA token : token # Separator)

\* The events of the nodes of a forest, in the forest's pre-order.
PreOrderEvents(tp) ==
  LET nodes == PreOrder(tp.root_region_executions)
  IN [k \in 1..Len(nodes) |-> Event(nodes[k], Pid, tp.thread_id)]

\* C11: trace export emits exactly one event per node of the forest, in the
\* forest's pre-order (roots in forest order, a node before its descendants,
\* the subtrees of siblings in child order): when to_chrome_tracing returns
\* Ok, the event objects in the sink are the events of the pre-order
\* sequence of the forest; when it returns Err, they are a prefix of it.
C11_ExportIsPreOrder ==
  [][ \A t \in Threads :
        exported'[t] # exported[t] =>
          LET result == Unwrap(exported'[t])
              events == EventsOf(result.target.written)
              expected == PreOrderEvents(Unwrap(thread_profile[t]))
          IN /\ Len(events) <= Len(expected)
             /\ events = SubSeq(expected, 1, Len(events))
             /\ result.ok => events = expected
    ]_vars

\* An export that returned Ok for a forest of one root with two children,
\* the first of which has a child of its own.
C11_Witness ==
  /\ IsSome(exported[Main])
  /\ IsSome(thread_profile[Main])
  /\ Unwrap(exported[Main]).ok
  /\ LET roots == Unwrap(thread_profile[Main]).root_region_executions
     IN /\ Len(roots) = 1
        /\ Len(roots[1].children) = 2
        /\ Len(roots[1].children[1].children) = 1
        /\ roots[1].children[1].region.name # roots[1].region.name
        /\ EventsOf(Unwrap(exported[Main]).target.written)
             = PreOrderEvents(Unwrap(thread_profile[Main]))

\* C12: the exporter writes a well-formed array body: in the tokens written
\* to the sink a separator appears only between two event objects, never
\* first, never after the last event and never next to another separator.
C12_NoTrailingComma ==
  \A t \in Threads :
    IsSome(exported[t]) =>
      LET written == Unwrap(exported[t]).target.written
      IN \A k \in 1..Len(written) :
           written[k] = Separator =>
             /\ k > 1
             /\ k < Len(written)
             /\ written[k - 1] # Separator
             /\ written[k + 1] # Separator

\* The RegionRecord of an activation of profile p still exists or was
\* leaked: the end of that activation was written by the drop of another
\* RegionRecord.
ClosedByAnother(p) ==
  \E i \in 1..Len(p.region_backends) :
    Guard(p.thread_id, p.region_backends[i].start) \in guards \cup leaked

\* C13: a mismatched close is fatal at the point of detection: a drop of a
\* RegionRecord while the activation on top of the stack is not its own
\* aborts (it changes no session, does not start a hand-off and leaves the
\* queue alone), and no profile holding an activation whose end was written
\* by the drop of another activation's RegionRecord is ever handed off (in
\* particular none with an activation whose own RegionRecord still exists
\* or was leaked).
C13_MismatchIsFatal ==
  /\ [][ \A t \in Threads : \A g \in guards :
           (g \notin guards' /\ clock'[t] # clock[t] /\ Mismatched(t, g)) =>
             /\ thread_local' = thread_local
             /\ pc' = pc
             /\ profiles' = profiles
       ]_vars
  /\ [](\A k \in 1..Len(pushed) : ~ClosedByAnother(pushed[k]))

\* The time of the last hand-off of thread t: the largest end time of the
\* first activation (the one closed last) of the profiles it pushed.
LastPushedEnd(t) ==
  LET ends == {Unwrap(pushed[k].region_backends[1].end) :
                 k \in {n \in 1..Len(pushed) : pushed[n].thread_id = t}}
  IN IF ends = {} THEN 0 ELSE CHOOSE e \in ends : \A f \in ends : f <= e

\* C14: a close on a thread whose stack is empty is a fatal error that
\* touches nothing: the drop of a RegionRecord on a thread with an empty
\* stack ends without taking the mutex, pushes nothing, starts no hand-off
\* and leaves the queue and every session unchanged; a session that is
\* detached always has an empty stack, so the test of the stack comes first.
C14_CloseOnEmptyStackPanics ==
  /\ [][ \A t \in Threads : \A g \in guards :
           (/\ g \notin guards'
            /\ clock'[t] # clock[t]
            /\ Len(thread_local[t].stack) = 0) =>
             /\ mutex' = mutex
             /\ profiles' = profiles
             /\ pushed' = pushed
             /\ pc' = pc
             /\ thread_local' = thread_local
       ]_vars
  /\ [](\A t \in Threads :
          ~IsSome(thread_local[t].raw_thread_profile) =>
            Len(thread_local[t].stack) = 0)

\* A RegionRecord was dropped on a thread whose session is detached (the
\* thread read the clock after its last hand-off and opened nothing), while
\* its profile is still queued.
C14_Witness ==
  \E t \in Recorders :
    /\ pc[t] = "idle"
    /\ thread_local[t].raw_thread_profile = None
    /\ \E k \in 1..Len(profiles) : profiles[k].thread_id = t
    /\ clock[t] > LastPushedEnd(t)
    /\ mutex = None

\* C15: a leaked RegionRecord stalls its generation: while the activation of
\* a leaked RegionRecord is open in the session of its thread, no close on
\* that thread starts a hand-off, and every activation the thread opens is a
\* descendant of that activation.
C15_LeakStallsGeneration ==
  [][ \A g \in leaked :
        LET t == g.thread
            before == thread_local[t]
            after == thread_local'[t]
        IN \A i \in 0..(IF IsSome(before.raw_thread_profile)
                          THEN Len(Unwrap(before.raw_thread_profile)
                                     .region_backends) - 1
                          ELSE -1) :
             LET raw == Unwrap(before.raw_thread_profile)
             IN (/\ raw.region_backends[i + 1].start = g.start
                 /\ raw.region_backends[i + 1].end = None) =>
                  /\ ~InHandoff(t)'
                  /\ IsSome(after.raw_thread_profile)
                  /\ Len(Unwrap(after.raw_thread_profile).region_backends)
                       > Len(raw.region_backends) =>
                         IsAncestor(Unwrap(after.raw_thread_profile), i,
                                    Len(raw.region_backends))
    ]_vars

\* Every activation of a profile has an end time.
AllClosed(p) ==
  \A i \in 1..Len(p.region_backends) : IsSome(p.region_backends[i].end)

\* C16: every profile that reaches the queue has an end time on every
\* activation, whatever RegionRecords were opened, dropped or leaked on
\* whatever threads: every profile that was pushed, is queued or was
\* returned by a receive is closed throughout, so profile() does not panic
\* on it; in a session the activations without an end are exactly those
\* whose index is on the stack.
C16_QueuedProfilesAreClosed ==
  /\ \A k \in 1..Len(pushed) : AllClosed(pushed[k])
  /\ \A k \in 1..Len(profiles) : AllClosed(profiles[k])
  /\ \A t \in Threads :
       /\ IsSome(ret[t]) => ~ProfilePanics(Unwrap(ret[t]))
       /\ IsSome(thread_local[t].raw_thread_profile) =>
            LET backends == Unwrap(thread_local[t].raw_thread_profile)
                              .region_backends
                stack == thread_local[t].stack
            IN \A i \in 0..(Len(backends) - 1) :
                 (backends[i + 1].end = None)
                   <=> (\E k \in 1..Len(stack) : stack[k] = i)

\* A consumer received a profile of two or more activations of which one
\* was closed by the drop of another activation's RegionRecord (its own
\* still exists or was leaked).
C16_Witness ==
  \E t \in Consumers :
    /\ IsSome(ret[t])
    /\ Len(Unwrap(ret[t]).region_backends) >= 2
    /\ ClosedByAnother(Unwrap(ret[t]))

\* In the activation list every parent is an earlier index.
ParentsAreEarlier(p) ==
  \A i \in 0..(Len(p.region_backends) - 1) :
    IsSome(p.region_backends[i + 1].parent) =>
      Unwrap(p.region_backends[i + 1].parent) \in 0..(i - 1)

\* The activation list of a session (empty when the session is detached).
Backends(tl) ==
  IF IsSome(tl.raw_thread_profile)
    THEN Unwrap(tl.raw_thread_profile).region_backends
    ELSE <<>>

\* C17: indices are assigned in creation order and parents are earlier
\* indices: an open appends one activation at the index that equals the
\* length of the list before the open, with the index on top of the stack
\* before the open as its parent (None when the stack was empty), and pushes
\* its index; no step changes the parent of an activation of a list that
\* continues; and in every session and every queued or pushed profile a
\* parent that is present is strictly less than the activation's index.
C17_IndicesAndParents ==
  /\ [][ \A t \in Threads :
           LET before == thread_local[t]
               after == thread_local'[t]
               n == Len(Backends(before))
           IN /\ Len(after.stack) > Len(before.stack) =>
                   /\ Len(Backends(after)) = n + 1
                   /\ SubSeq(Backends(after), 1, n) = Backends(before)
                   /\ after.stack = Append(before.stack, n)
                   /\ Backends(after)[n + 1].parent =
                        IF Len(before.stack) > 0
                          THEN Some(before.stack[Len(before.stack)])
                          ELSE None
              /\ (IsSome(before.raw_thread_profile)
                    /\ IsSome(after.raw_thread_profile)) =>
                   \A i \in 1..n :
                     Backends(after)[i].parent = Backends(before)[i].parent
       ]_vars
  /\ [](/\ \A t \in Threads :
             IsSome(thread_local[t].raw_thread_profile) =>
               ParentsAreEarlier(Unwrap(thread_local[t].raw_thread_profile))
        /\ \A k \in 1..Len(profiles) : ParentsAreEarlier(profiles[k])
        /\ \A k \in 1..Len(pushed) : ParentsAreEarlier(pushed[k]))

\* A queued profile of three activations, a root, a child and a grandchild,
\* while the session of its thread is detached.
C17_Witness ==
  \E k \in 1..Len(profiles) :
    LET p == profiles[k]
        tl == thread_local[p.thread_id]
    IN /\ Len(p.region_backends) = 3
       /\ p.region_backends[2].parent = Some(0)
       /\ p.region_backends[3].parent = Some(1)
       /\ tl.raw_thread_profile = None

\* The recorded intervals of a profile are properly nested.
ProperlyNested(p) ==
  LET b == p.region_backends
      n == Len(b)
  IN /\ \A i \in 1..n : b[i].start <= Unwrap(b[i].end)
     /\ \A i \in 1..n :
          IsSome(b[i].parent) =>
            /\ b[Unwrap(b[i].parent) + 1].start <= b[i].start
            /\ Unwrap(b[i].end) <= Unwrap(b[Unwrap(b[i].parent) + 1].end)
     /\ \A i, j \in 1..n :
          (i < j /\ b[i].parent = b[j].parent) =>
            Unwrap(b[i].end) <= b[j].start

\* C18: with a monotonic clock the intervals of every handed-off profile are
\* properly nested: every activation has start <= end, an activation lies
\* within the interval of its parent, and of two activations with the same
\* parent (or both without one) the earlier ends before the later starts.
C18_IntervalsProperlyNested ==
  \A k \in 1..Len(pushed) : AllClosed(pushed[k]) /\ ProperlyNested(pushed[k])

\* A handed-off profile of a root with two children, one after the other.
C18_Witness ==
  \E k \in 1..Len(pushed) :
    /\ Len(pushed[k].region_backends) = 3
    /\ pushed[k].region_backends[2].parent = Some(0)
    /\ pushed[k].region_backends[3].parent = Some(0)

\* C19: every profile handed to the queue has exactly one activation without
\* a parent, the one at index 0, and every reconstructed ThreadProfile has
\* exactly one root execution.
C19_SingleRoot ==
  /\ \A k \in 1..Len(pushed) :
       {i \in 0..(Len(pushed[k].region_backends) - 1) :
          pushed[k].region_backends[i + 1].parent = None} = {0}
  /\ \A t \in Threads :
       IsSome(thread_profile[t]) =>
         Len(Unwrap(thread_profile[t]).root_region_executions) = 1

\* The second generation of the thread, three activations under one root,
\* was reconstructed after the first.
C19_Witness ==
  /\ Len(pushed) = 2
  /\ IsSome(ret[Main])
  /\ Unwrap(ret[Main]) = pushed[2]
  /\ Len(pushed[2].region_backends) = 3
  /\ thread_profile[Main] = Some(profile(pushed[2]))
  /\ Len(Unwrap(thread_profile[Main]).root_region_executions[1].children) >= 1

\* The positions at which a thread holds the GLOBAL mutex.
HoldsMutex(t) == pc[t] \in {"drop_push", "recv_loop", "try_recv_pop"}

====
